---- MODULE Spec2Model ----
(***************************************************************************)
(* Model of renku/cli/_ascii.py: the ASCII renderer of a DAG.              *)
(*                                                                         *)
(* A render pass (DAG.__iter__) walks the nodes of graph.G in reversed     *)
(* topological order.  For every node DAG.iter_edges yields one or more    *)
(* frames and updates self.columns / self.edges; every frame is turned     *)
(* into text rows by DAG.iter_node_lines, with the label of the node       *)
(* built by DAG.node_text and _format_sha1.                                *)
(*                                                                         *)
(* Nodes are named by their rank in the reversed topological order: node 1 *)
(* is rendered first, and the parents of node n are nodes greater than n.  *)
(* Python lists are sequences; a Python index i is the TLA+ index i + 1.   *)
(***************************************************************************)
EXTENDS Integers, Sequences, FiniteSets, TLC

\* Number of nodes of the graphs that are rendered whatever their edges are.
MaxNodes == 4
\* Largest number of parent edges of such a graph.
MaxEdges == 5
\* Number of leaves of the fan graphs: node 1 has at most one of the leaves as
\* a parent, before or after node 2 or without it, and node 2 has any of the
\* leaves as parents, in any order.
MaxFan == 4
\* Number of nodes of the graphs that are rendered twice, with attributes.
MaxAttrNodes == 2
\* Largest number of parent edges of those graphs.
MaxAttrEdges == 3

\* Symbols for nodes and edges (class attributes of DAG).
NODE == "*"
ROOT_NODE == "@"
MERGE_NODE == "+"
LEFT_EDGE == "/"
RIGHT_EDGE == "\\"
VERTICAL_EDGE == "|"
HORIZONTAL_EDGE == "-"
SPACE == " "

VARIABLES
    parents,      \* graph.G.pred: node -> ordered parents
    workflow,     \* graph.G.nodes[n] has a 'workflow_path'
    submodule,    \* graph.G.nodes[n]['submodule']: [has, list]
    contraction,  \* graph.G.nodes[n]['contraction']: the 'submodule' lists of its values
    short,        \* DAG.short
    columns,      \* DAG.columns
    edges,        \* keys of DAG.edges (every value is VERTICAL_EDGE)
    last_index,   \* DAG.last_index
    last_columns_size_diff, \* DAG.last_columns_size_diff
    pc,           \* position of __iter__: "next", "frames", "done", "failed"
    error,        \* the exception that ended the pass ("none" if there is none)
    pos,          \* rank of the node __iter__ is at (0 before the first)
    loc,          \* locals of the running iter_edges generator
    frames,       \* frames yielded by iter_edges in this pass
    out,          \* rows yielded by __iter__ in this pass
    pass,         \* number of the render pass (each has its own DAG object)
    out1,         \* rows of the first pass, kept when a second one starts
    submodule0    \* submodule as it was before the first pass

\* The nodes of the graph, by rank.
NumNodes == Len(parents)
NodeSet == 1..Len(parents)

graphVars == <<parents, workflow, contraction, short, submodule0>>
stateVars == <<columns, edges, last_index, last_columns_size_diff>>
vars == <<parents, workflow, submodule, contraction, short, columns, edges,
          last_index, last_columns_size_diff, pc, error, pos, loc, frames, out,
          pass, out1, submodule0>>

----------------------------------------------------------------------------
\* Python list helpers.

Min(a, b) == IF a < b THEN a ELSE b
Max(a, b) == IF a > b THEN a ELSE b

\* s[a:b] for 0 <= a, 0 <= b (Python clamps b to len(s)).
Slice(s, a, b) == SubSeq(s, a + 1, Min(b, Len(s)))

\* s[-k:] for k > 0 (Python clamps k to len(s)).
LastK(s, k) == SubSeq(s, Len(s) - Min(k, Len(s)) + 1, Len(s))

\* [a, b] * k (empty for k <= 0).
Pairs(a, b, k) == [i \in 1..(2 * Max(k, 0)) |-> IF i % 2 = 1 THEN a ELSE b]

\* [c] * k (empty for k <= 0).
Fill(c, k) == [i \in 1..Max(k, 0) |-> c]

\* list.index(x): Python index of the first x in s (x occurs in s).
Index(s, x) == (CHOOSE i \in 1..Len(s) : s[i] = x /\ \A j \in 1..(i - 1) : s[j] # x) - 1

In(s, x) == \E i \in 1..Len(s) : s[i] = x

\* str.rstrip() on a list of characters: what is left of the last character
\* that is not a space.
RStrip(s) ==
    LET keep == {i \in DOMAIN s : s[i] # SPACE}
    IN  IF keep = {} THEN <<>>
        ELSE SubSeq(s, 1, CHOOSE i \in keep : \A j \in keep : j <= i)

\* '%-*s' % (w, s): left-justify s in a field of w characters.
LJust(s, w) == s \o Fill(SPACE, w - Len(s))

----------------------------------------------------------------------------
\* DAG.iter_node_lines and its helpers.  An edge is a pair <<start, end>>.

\* self.edges.get(p, '|'): every value stored in self.edges is VERTICAL_EDGE.
EdgeSymbol(p) == VERTICAL_EDGE

\* edge_characters: two characters per column, extended for added columns.
ColumnCharacters(cols) ==
    [i \in 1..(2 * Len(cols)) |->
        IF i % 2 = 1 THEN EdgeSymbol(cols[(i + 1) \div 2]) ELSE SPACE]

EdgeCharacters(cols, number_of_columns, columns_size_diff) ==
    ColumnCharacters(cols)
        \o Pairs(VERTICAL_EDGE, SPACE,
                 Max(number_of_columns + columns_size_diff - Len(cols), 0))

\* Mutant of FixRightCrossed: the edges are left as they are.
FixRightCrossedOff(es) == es

\* _fix_right_crossed: right crossed edges become a horizontal bar.
FixRightCrossed(es) ==
    [i \in DOMAIN es |-> IF es[i][2] > es[i][1] THEN <<es[i][1], es[i][2] + 1>> ELSE es[i]]

FixedEdges(es, columns_size_diff) ==
    IF columns_size_diff = -1 THEN FixRightCrossed(es) ELSE es

AddPaddingLine(text, columns_size_diff, es) ==
    /\ Len(text) > 2
    /\ columns_size_diff = -1
    /\ \E i \in DOMAIN es : es[i][1] + 1 < es[i][2]

FixTailSlope(text, add_padding_line) == Len(text) <= 2 /\ ~add_padding_line

\* _line_tail
LineTail(ec, column_index, number_of_columns, columns_size_diff, fix_tail, lidx, ldiff) ==
    IF fix_tail /\ columns_size_diff = ldiff /\ columns_size_diff # 0
    THEN IF columns_size_diff = -1
         THEN LET start == Max(column_index + 1, lidx)
              IN  Slice(ec, column_index * 2, (start - 1) * 2)
                      \o Pairs(LEFT_EDGE, SPACE, number_of_columns - start)
         ELSE Pairs(RIGHT_EDGE, SPACE, number_of_columns - column_index - 1)
    ELSE LET remainder == number_of_columns - column_index - 1
         IN  IF remainder > 0 THEN LastK(ec, remainder * 2) ELSE <<>>

\* current_line before the edges are rendered.
CurrentLine(ec, node_symbol, column_index, number_of_columns, columns_size_diff, fix_tail, lidx, ldiff) ==
    Slice(ec, 0, column_index * 2) \o <<node_symbol, SPACE>>
        \o LineTail(ec, column_index, number_of_columns, columns_size_diff,
                    fix_tail, lidx, ldiff)

\* shift_line before the edges are rendered.
ShiftLine(ec, column_index, number_of_columns, columns_size_diff) ==
    LET count == number_of_columns - column_index - 1
    IN  Slice(ec, 0, column_index * 2) \o Fill(SPACE, 2 + columns_size_diff)
            \o (IF columns_size_diff = -1 THEN Pairs(LEFT_EDGE, SPACE, count)
                ELSE IF columns_size_diff = 0
                     THEN Slice(ec, (column_index + 1) * 2, number_of_columns * 2)
                     ELSE Pairs(RIGHT_EDGE, SPACE, count))

\* lst[i] = c; an index outside the list is an IndexError (ok becomes FALSE).
SetItem(lst, i, c) == IF i < Len(lst) THEN [lst EXCEPT ![i + 1] = c] ELSE lst

\* Mutant of HorizontalBar: the bar starts one character to the left.
HorizontalBarWide(cur, first, stop) ==
    [i \in DOMAIN cur |->
        IF first - 1 <= i - 1 /\ i - 1 < stop /\ cur[i] # MERGE_NODE
        THEN HORIZONTAL_EDGE ELSE cur[i]]

\* The horizontal merge line of one edge on current_line.
\*   for i in range(first, stop): if current_line[i] != '+': current_line[i] = '-'
HorizontalBar(cur, first, stop) ==
    [i \in DOMAIN cur |->
        IF first <= i - 1 /\ i - 1 < stop /\ cur[i] # MERGE_NODE
        THEN HORIZONTAL_EDGE ELSE cur[i]]

\* Mutant of RenderEdge: start and end are ordered before the merge marker is
\* placed, so that the marker always lands on the right end of the bar.
RenderEdgeMarksRight(ec, e, st) ==
    LET start == e[1]
        end == e[2]
    IN  IF ~st.ok THEN st
        ELSE IF start = end + 1
        THEN [st EXCEPT !.sh = SetItem(@, 2 * end + 1, LEFT_EDGE),
                        !.ok = 2 * end + 1 < Len(st.sh)]
        ELSE IF start = end - 1
        THEN [st EXCEPT !.sh = SetItem(@, 2 * start + 1, RIGHT_EDGE),
                        !.ok = 2 * start + 1 < Len(st.sh)]
        ELSE IF start = end
        THEN IF 2 * start < Len(ec)
             THEN [st EXCEPT !.sh = SetItem(@, 2 * start, ec[2 * start + 1]),
                             !.ok = 2 * start < Len(st.sh)]
             ELSE [st EXCEPT !.ok = FALSE]
        ELSE IF 2 * end >= Len(st.cur) THEN st
        ELSE LET lo == Min(start, end)
                 hi == Max(start, end)
             IN  [st EXCEPT !.cur = HorizontalBar(SetItem(@, 2 * hi, MERGE_NODE),
                                                  2 * lo + 1, 2 * hi),
                            !.ok = 2 * hi - 1 < Len(st.cur)]

\* Mutant of RenderEdge: the merge line is rendered without the test
\* 'if 2 * end >= len(current_line): continue'.
RenderEdgeUnguarded(ec, e, st) ==
    LET start == e[1]
        end == e[2]
    IN  IF ~st.ok THEN st
        ELSE IF start = end + 1
        THEN [st EXCEPT !.sh = SetItem(@, 2 * end + 1, LEFT_EDGE),
                        !.ok = 2 * end + 1 < Len(st.sh)]
        ELSE IF start = end - 1
        THEN [st EXCEPT !.sh = SetItem(@, 2 * start + 1, RIGHT_EDGE),
                        !.ok = 2 * start + 1 < Len(st.sh)]
        ELSE IF start = end
        THEN IF 2 * start < Len(ec)
             THEN [st EXCEPT !.sh = SetItem(@, 2 * start, ec[2 * start + 1]),
                             !.ok = 2 * start < Len(st.sh)]
             ELSE [st EXCEPT !.ok = FALSE]
        ELSE LET lo == Min(start, end)
                 hi == Max(start, end)
             IN  [st EXCEPT !.cur = HorizontalBar(SetItem(@, 2 * end, MERGE_NODE),
                                                  2 * lo + 1, 2 * hi),
                            !.ok = 2 * hi < Len(st.cur)]

\* One iteration of the loop of _render_edges.
\* st = [cur |-> current_line, sh |-> shift_line, ok |-> no IndexError so far]
RenderEdge(ec, e, st) ==
    LET start == e[1]
        end == e[2]
    IN  IF ~st.ok THEN st
        ELSE IF start = end + 1
        THEN [st EXCEPT !.sh = SetItem(@, 2 * end + 1, LEFT_EDGE),
                        !.ok = 2 * end + 1 < Len(st.sh)]
        ELSE IF start = end - 1
        THEN [st EXCEPT !.sh = SetItem(@, 2 * start + 1, RIGHT_EDGE),
                        !.ok = 2 * start + 1 < Len(st.sh)]
        ELSE IF start = end
        THEN IF 2 * start < Len(ec)
             THEN [st EXCEPT !.sh = SetItem(@, 2 * start, ec[2 * start + 1]),
                             !.ok = 2 * start < Len(st.sh)]
             ELSE [st EXCEPT !.ok = FALSE]
        ELSE IF 2 * end >= Len(st.cur) THEN st
        ELSE LET lo == Min(start, end)
                 hi == Max(start, end)
             IN  [st EXCEPT !.cur = HorizontalBar(SetItem(@, 2 * end, MERGE_NODE),
                                                  2 * lo + 1, 2 * hi),
                            !.ok = 2 * hi - 1 < Len(st.cur)]

\* _render_edges
RECURSIVE RenderEdges(_, _, _)
RenderEdges(ec, es, st) ==
    IF es = <<>> THEN st ELSE RenderEdges(ec, Tail(es), RenderEdge(ec, Head(es), st))

\* _padding_line
PaddingLine(ec, column_index, number_of_columns, es) ==
    LET remainder == number_of_columns - column_index - 1
    IN  Slice(ec, 0, column_index * 2)
            \o (IF In(es, <<column_index, column_index - 1>>)
                   \/ In(es, <<column_index, column_index>>)
                THEN Slice(ec, column_index * 2, (column_index + 1) * 2)
                ELSE <<SPACE, SPACE>>)
            \o (IF remainder > 0 THEN LastK(ec, remainder * 2) ELSE <<>>)

\* Mutant of KeepShiftLine: the shift line is kept in both modes.
KeepShiftLineAlways(is_short, shift_line) == TRUE

\* if self.short: keep the shift line only when it contains an edge shift.
KeepShiftLine(is_short, shift_line) ==
    IF is_short THEN In(shift_line, LEFT_EDGE) \/ In(shift_line, RIGHT_EDGE) ELSE TRUE

\* Number of extension lines: lines.append(extra_shift_line[:]) until there
\* are as many lines as lines of text.
MissingLines(nlines, text) == Max(Len(text) - nlines, 0)

\* Mutant of IndentationLevel: the column that is removed is not counted.
IndentationLevelNarrow(number_of_columns, columns_size_diff) ==
    number_of_columns + Min(columns_size_diff, 0)

\* indentation_level = number_of_columns + max(columns_size_diff, 0)
IndentationLevel(number_of_columns, columns_size_diff) ==
    number_of_columns + Max(columns_size_diff, 0)

NoMsg == [node |-> 0, part |-> 0, sub |-> <<>>]

\* Mutant of FormatLine: the message is added whatever the symbol is.
FormatLineAnySymbol(node_symbol, line, msg, indentation_level) ==
    IF msg # NoMsg
    THEN [g |-> LJust(RStrip(line), 2 * indentation_level), msg |-> msg]
    ELSE [g |-> RStrip(line), msg |-> NoMsg]

\* One formatted row: the graph part and the message that follows it.
\*   '%-*s %s' % (2 * indentation_level, ''.join(line).rstrip(), msg)  or
\*   '%-*s' % (2 * indentation_level, ''.join(line)),   then  .rstrip()
FormatLine(node_symbol, line, msg, indentation_level) ==
    IF node_symbol \in {ROOT_NODE, NODE} /\ msg # NoMsg
    THEN [g |-> LJust(RStrip(line), 2 * indentation_level), msg |-> msg]
    ELSE [g |-> RStrip(line), msg |-> NoMsg]

\* lines: the node line, the padding line, the shift line (each with its
\* kind), then the lines added for long texts.
\* st = [cur |-> current_line, sh |-> shift_line, ok |-> ...] after _render_edges
Lines(text, info, ec, es, add_padding_line, is_short, st) ==
    LET fixed == <<[kind |-> "node", chars |-> st.cur]>>
                 \o (IF add_padding_line
                     THEN <<[kind |-> "pad",
                             chars |-> PaddingLine(ec, info.column_index,
                                                   info.number_of_columns, es)]>>
                     ELSE <<>>)
                 \o (IF KeepShiftLine(is_short, st.sh)
                     THEN <<[kind |-> "shift", chars |-> st.sh]>>
                     ELSE <<>>)
        extra_shift_line ==
            Slice(ec, 0, (info.number_of_columns + info.columns_size_diff) * 2)
    IN  [ok |-> st.ok,
         lines |-> fixed \o [i \in 1..MissingLines(Len(fixed), text) |->
                                [kind |-> "ext", chars |-> extra_shift_line]]]

\* The graph lines of a frame from its edge characters and (fixed) edges.
RenderLines(node_symbol, text, info, ec, es, add_padding_line, is_short, lidx, ldiff) ==
    Lines(text, info, ec, es, add_padding_line, is_short,
          RenderEdges(ec, es,
              [cur |-> CurrentLine(ec, node_symbol, info.column_index,
                                   info.number_of_columns, info.columns_size_diff,
                                   FixTailSlope(text, add_padding_line), lidx, ldiff),
               sh |-> ShiftLine(ec, info.column_index, info.number_of_columns,
                                info.columns_size_diff),
               ok |-> TRUE]))

\* The graph lines of a frame, in order, each with its kind.
\* info = [column_index, edges, number_of_columns, columns_size_diff]
GraphLines(node_symbol, text, info, cols, is_short, lidx, ldiff) ==
    RenderLines(node_symbol, text, info,
                EdgeCharacters(cols, info.number_of_columns, info.columns_size_diff),
                FixedEdges(info.edges, info.columns_size_diff),
                AddPaddingLine(text, info.columns_size_diff,
                               FixedEdges(info.edges, info.columns_size_diff)),
                is_short, lidx, ldiff)

\* for (line, msg) in zip_longest(lines, text, fillvalue=''): yield ln.rstrip()
ZipLine(kind, f) == [kind |-> kind, g |-> f.g, msg |-> f.msg]

ZipLines(node_symbol, lines, text, indentation_level) ==
    [i \in 1..Max(Len(lines), Len(text)) |->
        ZipLine(IF i <= Len(lines) THEN lines[i].kind ELSE "fill",
                FormatLine(node_symbol,
                           IF i <= Len(lines) THEN lines[i].chars ELSE <<>>,
                           IF i <= Len(text) THEN text[i] ELSE NoMsg, indentation_level))]

\* Mutant of Separator: the blank row is yielded while edges are pending.
SeparatorOff(pending) ==
    IF pending # {} THEN <<[kind |-> "blank", g |-> <<>>, msg |-> NoMsg]>> ELSE <<>>

\* if not self.edges: yield ''
Separator(pending) ==
    IF pending = {} THEN <<[kind |-> "blank", g |-> <<>>, msg |-> NoMsg]>> ELSE <<>>

\* assert -2 < columns_size_diff < 2, 'Too many changes on a line.'
OneChange(columns_size_diff) == -2 < columns_size_diff /\ columns_size_diff < 2

\* iter_node_lines: the rows yielded for one frame, or the exception raised
\* before the first of them is yielded.
Yielded(node_symbol, text, info, pending, gl) ==
    IF ~OneChange(info.columns_size_diff)
    THEN [error |-> "AssertionError", rows |-> <<>>]
    ELSE IF ~gl.ok
    THEN [error |-> "IndexError", rows |-> <<>>]
    ELSE [error |-> "none",
          rows |-> ZipLines(node_symbol, gl.lines, text,
                            IndentationLevel(info.number_of_columns,
                                             info.columns_size_diff))
                   \o Separator(pending)]

IterNodeLines(node_symbol, text, info, cols, pending, is_short, lidx, ldiff) ==
    Yielded(node_symbol, text, info, pending,
            GraphLines(node_symbol, text, info, cols, is_short, lidx, ldiff))

----------------------------------------------------------------------------
\* The graphs that are rendered.

\* The ordered selections without repetition of the members of S: the possible
\* iteration orders of graph.G.pred[node].
RECURSIVE OrderedSubsets(_)
OrderedSubsets(S) ==
    {<<>>} \cup UNION {{<<x>> \o q : q \in OrderedSubsets(S \ {x})} : x \in S}

RECURSIVE NumEdges(_)
NumEdges(g) == IF g = <<>> THEN 0 ELSE Len(Head(g)) + NumEdges(Tail(g))

\* The acyclic graphs on the nodes n..last with at most e edges: the parents
\* of a node come after it in the order of rendering.
RECURSIVE GraphsFrom(_, _, _)
GraphsFrom(n, last, e) ==
    IF n > last THEN {<<>>}
    ELSE UNION {{<<q>> \o g : g \in GraphsFrom(n + 1, last, e - Len(q))} :
                q \in {r \in OrderedSubsets((n + 1)..last) : Len(r) <= e}}

\* The fan graphs: nodes 1 and 2 over the leaves 3..(MaxFan + 2).
FanGraphs ==
    {<<p, q>> \o [i \in 1..MaxFan |-> <<>>] :
        p \in {r \in OrderedSubsets(2..(MaxFan + 2)) :
                  Cardinality({i \in DOMAIN r : r[i] # 2}) <= 1},
        q \in OrderedSubsets(3..(MaxFan + 2))}

NoSubmodule == [has |-> FALSE, list |-> <<>>]

\* The state of a freshly constructed DAG object (the attr.ib defaults).
NoLocals == [node |-> 0, column_index |-> 0, number_of_columns |-> 0,
             new_columns |-> <<>>, edges |-> <<>>, node_symbol |-> NODE,
             width |-> 0, next_len |-> 0]

NewDAG ==
    /\ columns = <<>>
    /\ edges = {}
    /\ last_index = 0
    /\ last_columns_size_diff = 0
    /\ pc = "next"
    /\ error = "none"
    /\ pos = 0
    /\ loc = NoLocals
    /\ frames = <<>>
    /\ out = <<>>

\* One render pass over a graph whose nodes carry no submodule information.
Init ==
    \* Either no node has a 'workflow_path' or all have one (the number of
    \* label lines of a node changes nothing but the rows of that node); the
    \* fan graphs are rendered short, with a 'workflow_path'.
    /\ \/ /\ parents \in GraphsFrom(1, MaxNodes, MaxEdges)
          /\ \E w \in BOOLEAN : workflow = [n \in NodeSet |-> w]
          /\ short \in BOOLEAN
       \/ /\ parents \in FanGraphs
          /\ workflow = [n \in NodeSet |-> TRUE]
          /\ short = TRUE
    /\ submodule = [n \in NodeSet |-> NoSubmodule]
    /\ contraction = [n \in NodeSet |-> <<>>]
    /\ NewDAG
    /\ pass = 1
    /\ out1 = <<>>
    /\ submodule0 = submodule

----------------------------------------------------------------------------
\* _format_sha1 and DAG.node_text.

RECURSIVE Concat(_)
Concat(ss) == IF ss = <<>> THEN <<>> ELSE Head(ss) \o Concat(Tail(ss))

\* submodules after the loop over the node's contractions.
Submodules(sub, contr) == (IF sub.has THEN sub.list ELSE <<>>) \o Concat(contr)

\* The node's 'submodule' attribute after _format_sha1: .get('submodule', [])
\* returns the stored list itself when there is one, and extend() changes it.
SubmoduleAfter(sub, contr) ==
    IF sub.has THEN [sub EXCEPT !.list = Submodules(sub, contr)] ELSE sub

\* node_text(node): one label line, and a second one for a workflow.
NodeText(node, sub, contr, has_workflow) ==
    <<[node |-> node, part |-> 1, sub |-> Submodules(sub, contr)]>>
        \o (IF has_workflow THEN <<[node |-> node, part |-> 2, sub |-> <<>>]>> ELSE <<>>)

----------------------------------------------------------------------------
\* DAG.iter_edges.

\* Mutant of NodeSymbol: a node with a single parent is drawn as a root.
NodeSymbolOff(ps) == IF Len(ps) > 1 THEN NODE ELSE ROOT_NODE

\* node_symbol = self.NODE if parents else self.ROOT_NODE
NodeSymbol(ps) == IF ps # <<>> THEN NODE ELSE ROOT_NODE

\* Mutant of Register: a node that has no column yet is put in front.
RegisterInFront(cols, node) == IF In(cols, node) THEN cols ELSE <<node>> \o cols

\* Mutant of Register: a node that has no column yet is given two.
RegisterTwice(cols, node) == IF In(cols, node) THEN cols ELSE cols \o <<node, node>>

\* if node not in self.columns: self.columns.append(node)
Register(cols, node) == IF In(cols, node) THEN cols ELSE Append(cols, node)

\* The parents that have a column: existing_columns.
ExistingColumns(ps, cols) == SelectSeq(ps, LAMBDA p : In(cols, p))

\* Mutant of NewColumns: a parent that has a column is given another one.
NewColumnsAll(ps, cols) == ps

\* The parents that have no column yet: new_columns.
NewColumns(ps, cols) == SelectSeq(ps, LAMBDA p : ~In(cols, p))

\* Mutant of Splice: the new columns are inserted before the slot of the node,
\* which stays.
SpliceKeeps(cols, column_index, new_columns) ==
    SubSeq(cols, 1, column_index) \o new_columns \o SubSeq(cols, column_index + 1, Len(cols))

\* next_columns[column_index:column_index + 1] = new_columns
Splice(cols, column_index, new_columns) ==
    SubSeq(cols, 1, column_index) \o new_columns \o SubSeq(cols, column_index + 2, Len(cols))

\* Mutant of MoreColumns: the loop leaves three new columns to the last frame.
MoreColumnsOff(new_columns) == Len(new_columns) > 3

\* while len(new_columns) > 2
MoreColumns(new_columns) == Len(new_columns) > 2

\* columns_size_diff = len(next_columns) - number_of_columns
ColumnsSizeDiff(next_len, number_of_columns) == next_len - number_of_columns

\* Mutant of NewEdges: the first new column is opened right of the node.
NewEdgesRight(new_columns, column_index) ==
    (IF Len(new_columns) > 0 THEN <<<<column_index, column_index + 1>>>> ELSE <<>>)
        \o (IF Len(new_columns) > 1 THEN <<<<column_index, column_index + 2>>>> ELSE <<>>)

\* Edges for one or two new columns.
NewEdges(new_columns, column_index) ==
    (IF Len(new_columns) > 0 THEN <<<<column_index, column_index>>>> ELSE <<>>)
        \o (IF Len(new_columns) > 1 THEN <<<<column_index, column_index + 1>>>> ELSE <<>>)

\* The locals of iter_edges when it reaches the loop.
Locals(node, ps, cols, column_index, existing_columns, new_columns, next_columns) ==
    [node |-> node,
     column_index |-> column_index,
     number_of_columns |-> Len(cols),
     new_columns |-> new_columns,
     edges |-> [i \in DOMAIN existing_columns |->
                   <<column_index, Index(next_columns, existing_columns[i])>>],
     node_symbol |-> NodeSymbol(ps),
     width |-> 1 + Len(cols) * 2,
     next_len |-> Len(next_columns)]

\* The parents of the node split into known and new ones, with the columns
\* for the next line.
SplitParents(node, ps, cols, column_index, new_columns) ==
    Locals(node, ps, cols, column_index, ExistingColumns(ps, cols), new_columns,
           Splice(cols, column_index, new_columns))

\* The node and its parents, with self.columns after the node is registered.
Prepare(node, ps, cols) ==
    SplitParents(node, ps, cols, Index(cols, node), NewColumns(ps, cols))

\* Mutant of SelfReference: the assertion is left out.
SelfReferenceOff(ps, node) == FALSE

\* assert parent != node, 'Self reference is not allowed.'
\* The assertion fails when the loop reaches a parent that is the node.
SelfReference(ps, node) == In(ps, node)

\* The parents the loop has gone through when the exception exc is raised: the
\* ones before the node itself for the assertion, all of them for the
\* ValueError of next_columns.index(parent).
CheckedParents(ps, node, exc) ==
    IF exc = "SelfReference" THEN SubSeq(ps, 1, Index(ps, node)) ELSE ps

\* iter_edges ends with an exception before its first yield: the node is
\* registered and the new parents gone through have their edge, and
\* self.columns[:] = next_columns is not reached.
Raise(node, ps, cols, exc) ==
    /\ columns' = cols
    /\ edges' = edges \cup {p \in {CheckedParents(ps, node, exc)[i] :
                                      i \in DOMAIN CheckedParents(ps, node, exc)} :
                               ~In(cols, p)}
    /\ error' = exc
    /\ pc' = "failed"
    /\ UNCHANGED loc

\* iter_edges up to its first yield: register the node, split its parents,
\* splice the new parents into self.columns.  Without the assertion a node
\* among its own parents has no column left in next_columns, and
\* next_columns.index(parent) raises ValueError.
IterEdges ==
    /\ pc = "next"
    /\ pos < NumNodes
    /\ IF SelfReference(parents[pos + 1], pos + 1)
       THEN Raise(pos + 1, parents[pos + 1], Register(columns, pos + 1), "SelfReference")
       ELSE IF In(parents[pos + 1], pos + 1)
       THEN Raise(pos + 1, parents[pos + 1], Register(columns, pos + 1), "ValueError")
       ELSE /\ loc' = Prepare(pos + 1, parents[pos + 1], Register(columns, pos + 1))
            /\ columns' = Splice(Register(columns, pos + 1), loc'.column_index,
                                 loc'.new_columns)
            /\ edges' = edges \cup {loc'.new_columns[i] : i \in DOMAIN loc'.new_columns}
            /\ pc' = "frames"
            /\ UNCHANGED error
    /\ pos' = pos + 1
    /\ UNCHANGED <<graphVars, submodule, last_index, last_columns_size_diff,
                   frames, out, pass, out1>>

\* Mutant of Advance: two new columns are dropped per pass instead of one.
AdvanceDropsTwo(l) ==
    [l EXCEPT !.node_symbol = RIGHT_EDGE,
              !.column_index = @ + 1,
              !.number_of_columns = @ + 1,
              !.edges = <<>>,
              !.new_columns = Tail(Tail(@)),
              !.width = @ + 2]

\* Mutant of Advance: the continuation frames keep the symbol of the node.
AdvanceKeepsSymbol(l) ==
    [l EXCEPT !.column_index = @ + 1,
              !.number_of_columns = @ + 1,
              !.edges = <<>>,
              !.new_columns = Tail(@),
              !.width = @ + 2]

\* The locals of iter_edges after one pass of the loop: the next line will
\* only expand edges.
Advance(l) ==
    [l EXCEPT !.node_symbol = RIGHT_EDGE,
              !.column_index = @ + 1,
              !.number_of_columns = @ + 1,
              !.edges = <<>>,
              !.new_columns = Tail(@),
              !.width = @ + 2]

\* The rows of a frame as they are recorded: with their node and frame.
Rows(rows, node, frame_number) ==
    [i \in DOMAIN rows |->
        [node |-> node, frame |-> frame_number, kind |-> rows[i].kind,
         g |-> rows[i].g, msg |-> rows[i].msg]]

\* The effect of consuming what iter_node_lines yields for a frame: r.rows, or
\* the exception r.error that ends the pass.
Consume(frame, r, next_pc, next_loc) ==
    /\ error' = r.error
    /\ IF r.error = "none"
       THEN /\ out' = out \o Rows(r.rows, frame.node, Len(frames) + 1)
            /\ last_index' = frame.info.column_index
            /\ last_columns_size_diff' = frame.info.columns_size_diff
            /\ pc' = next_pc
            /\ loc' = next_loc
       ELSE /\ pc' = "failed"
            /\ UNCHANGED <<out, last_index, last_columns_size_diff, loc>>

\* The body of the loop of __iter__ for one yielded frame: node_text builds the
\* label (and _format_sha1 extends the node's submodule list), iter_node_lines
\* yields the rows and stores the last index and diff.
RenderFrame(frame, pending, next_pc, next_loc) ==
    /\ submodule' = [submodule EXCEPT
                        ![frame.node] = SubmoduleAfter(@, contraction[frame.node])]
    /\ frames' = Append(frames, frame)
    /\ edges' = pending
    /\ Consume(frame,
               IterNodeLines(frame.node_symbol,
                             NodeText(frame.node, submodule[frame.node],
                                      contraction[frame.node], workflow[frame.node]),
                             frame.info, columns, pending, short, last_index,
                             last_columns_size_diff),
               next_pc, next_loc)

\* The frame iter_edges yields: (node_symbol, width, column_info), with the
\* new columns that are left, the edges added for them, and the place in the
\* output of the first row of the frame.
Frame(l, final, new_edges, columns_size_diff) ==
    [node |-> l.node, node_symbol |-> l.node_symbol,
     first |-> Len(out) + 1,
     width |-> IF columns_size_diff > 0 THEN l.width + 2 ELSE l.width,
     final |-> final,
     new_columns |-> l.new_columns, new_edges |-> new_edges,
     info |-> [column_index |-> l.column_index,
               edges |-> l.edges \o new_edges,
               number_of_columns |-> l.number_of_columns,
               columns_size_diff |-> columns_size_diff]]

\* One pass of the loop 'while len(new_columns) > 2' with its yield.
IntermediateFrame ==
    /\ pc = "frames"
    /\ MoreColumns(loc.new_columns)
    /\ RenderFrame(Frame(loc, FALSE,
                         <<<<loc.column_index, loc.column_index>>,
                           <<loc.column_index, loc.column_index + 1>>>>,
                         1),
                   edges, "frames", Advance(loc))
    /\ UNCHANGED <<graphVars, columns, pos, pass, out1>>

\* Mutant of Exhausted: the loop of __iter__ ends one node early.
ExhaustedEarly(p, n) == p >= n - 1

\* for node in reversed(list(topological_sort(self.graph.G))): the loop ends
\* after the last node of the order.
Exhausted(p, n) == p = n

\* Mutant of Pop: the node keeps its entry in self.edges.
PopOff(pending, node) == pending

\* self.edges.pop(node, None)
Pop(pending, node) == pending \ {node}

\* The rest of iter_edges: the last frame of the node.
FinalFrame ==
    /\ pc = "frames"
    /\ ~MoreColumns(loc.new_columns)
    /\ RenderFrame(Frame(loc, TRUE, NewEdges(loc.new_columns, loc.column_index),
                         ColumnsSizeDiff(loc.next_len, loc.number_of_columns)),
                   Pop(edges, loc.node),
                   IF Exhausted(pos, NumNodes) THEN "done" ELSE "next", NoLocals)
    /\ UNCHANGED <<graphVars, columns, pos, pass, out1>>

\* A second render pass over the same graph: a new DAG object with the attr.ib
\* defaults.  The rows of the first pass are kept for comparison.
NewPass ==
    /\ pc = "done"
    /\ pass = 1
    /\ pass' = 2
    /\ out1' = out
    /\ columns' = <<>>
    /\ edges' = {}
    /\ last_index' = 0
    /\ last_columns_size_diff' = 0
    /\ pc' = "next"
    /\ pos' = 0
    /\ loc' = NoLocals
    /\ frames' = <<>>
    /\ out' = <<>>
    /\ UNCHANGED <<graphVars, submodule, error>>

Next == IterEdges \/ IntermediateFrame \/ FinalFrame

Spec == Init /\ [][Next]_vars

\* The generator __iter__ is suspended or about to start, and not exhausted.
Running == pc = "frames" \/ (pc = "next" /\ pos < NumNodes)

\* The consumer of __iter__ ('\n'.join(self) in __str__) asks for the next row
\* and the generator moves on to another node or out of its loop.
Resume == Running /\ pc' \in {"next", "frames", "done", "failed"} /\ pos' \in {pos, pos + 1}

\* A pass that is consumed to its end: a consumer that keeps asking for rows
\* does not leave the generator suspended for ever.  (Every step of the pass
\* is a step of Next; the fairness condition only rules out the behaviours
\* that stop while Next is enabled.)
SpecFair == Init /\ [][Next]_vars /\ WF_<<pc, pos>>(Resume)

\* Two passes over a graph whose first MaxAttrNodes nodes may carry submodule
\* information of their own and of the nodes contracted into them.
SubmoduleValues == {NoSubmodule, [has |-> TRUE, list |-> <<>>], [has |-> TRUE, list |-> <<"a">>]}
ContractionValues == {<<>>, <<<<"b">>>>}

InitTwice ==
    /\ parents \in GraphsFrom(1, MaxNodes, MaxAttrEdges)
    /\ workflow = [n \in NodeSet |-> FALSE]
    /\ submodule \in [NodeSet -> SubmoduleValues]
    /\ contraction \in [NodeSet -> ContractionValues]
    /\ \A n \in NodeSet : n > MaxAttrNodes => submodule[n] = NoSubmodule /\ contraction[n] = <<>>
    /\ short = TRUE
    /\ NewDAG
    /\ pass = 1
    /\ out1 = <<>>
    /\ submodule0 = submodule

NextTwice == Next \/ NewPass

SpecTwice == InitTwice /\ [][NextTwice]_vars

\* One render pass over a graph in which one node lists itself among its
\* parents, at any place of the iteration order of its parents.
SelfGraphs ==
    {[g EXCEPT ![n] = SubSeq(@, 1, k) \o <<n>> \o SubSeq(@, k + 1, Len(@))] :
        <<g, n, k>> \in {x \in GraphsFrom(1, MaxNodes, MaxAttrEdges)
                                  \X (1..MaxNodes) \X (0..MaxNodes) :
                            x[3] <= Len(x[1][x[2]])}}

InitSelf ==
    /\ parents \in SelfGraphs
    /\ workflow = [n \in NodeSet |-> FALSE]
    /\ submodule = [n \in NodeSet |-> NoSubmodule]
    /\ contraction = [n \in NodeSet |-> <<>>]
    /\ short \in BOOLEAN
    /\ NewDAG
    /\ pass = 1
    /\ out1 = <<>>
    /\ submodule0 = submodule

SpecSelf == InitSelf /\ [][Next]_vars

----------------------------------------------------------------------------
\* Properties.

FramesOf(n) == SelectSeq(frames, LAMBDA f : f.node = n)

\* The places in the output of the rows of frame i, which follow one another.
FrameRows(i) ==
    frames[i].first..(IF i < Len(frames) THEN frames[i + 1].first - 1 ELSE Len(out))

\* The last frame of node n has been rendered.
Rendered(n) == n < pos \/ (n = pos /\ pc \in {"next", "done"})

\* The state right after a frame was rendered (and before iter_edges resumes).
AfterFrame ==
    /\ frames # <<>>
    /\ error = "none"
    /\ pc \in {"next", "done"} \/ (pc = "frames" /\ loc.node_symbol = RIGHT_EDGE)

\* The parents of n that no node rendered before n has as a parent: the
\* parents that do not occupy a column when n is rendered.
FirstSeenParents(n) ==
    {p \in {parents[n][i] : i \in DOMAIN parents[n]} :
        \A m \in 1..(n - 1) : \A j \in DOMAIN parents[m] : parents[m][j] # p}

\* The number of x in s.
Count(s, x) == Cardinality({i \in DOMAIN s : s[i] = x})

\* C1: every frame yielded by iter_edges has columns_size_diff in {-1, 0, 1},
\* and the assertion 'Too many changes on a line.' never fails.
C1_OneChangePerFrame ==
    /\ \A i \in DOMAIN frames : frames[i].info.columns_size_diff \in {-1, 0, 1}
    /\ error # "AssertionError"

\* A finished pass with a node that has tracked parents and so many first-seen
\* ones that it is split into several frames, and with frames that shrink,
\* keep and grow the number of columns.
C1_Witness ==
    /\ pc = "done"
    /\ \E i \in DOMAIN frames :
          /\ ~frames[i].final
          /\ Len(frames[i].info.edges) > Len(frames[i].new_edges)
    /\ \A d \in {-1, 0, 1} : \E i \in DOMAIN frames : frames[i].info.columns_size_diff = d

\* C2: rendering does not change the graph: the 'submodule' list of every node
\* is what it was before the pass (no action assigns the parents).
C2_GraphUnchanged == submodule = submodule0

\* C3: two passes over the same graph, each with its own DAG object, yield the
\* same rows.
C3_SameRows == (pass = 2 /\ pc = "done") => out = out1

\* C4: a node with k first-seen parents yields Max(1, k - 1) frames: k - 2
\* frames with columns_size_diff = 1, then the last frame, which takes the
\* remaining 2 new columns when k > 2; no frame has more than 2 new edges.
C4_Chunking ==
    \A n \in NodeSet : Rendered(n) =>
        LET fs == FramesOf(n)
            k == Cardinality(FirstSeenParents(n))
        IN  /\ Len(fs) = Max(1, k - 1)
            /\ \A i \in 1..(Len(fs) - 1) :
                  /\ ~fs[i].final
                  /\ fs[i].info.columns_size_diff = 1
                  /\ fs[i + 1].info.number_of_columns = fs[i].info.number_of_columns + 1
            /\ fs[Len(fs)].final
            /\ Len(fs[Len(fs)].new_columns) = Min(k, 2)
            /\ Len(fs[Len(fs)].new_edges) = Min(k, 2)
            /\ \A i \in DOMAIN fs : Len(fs[i].new_edges) <= 2

\* A rendered node with 3 first-seen parents: one frame before the last one.
C4_Witness ==
    \E n \in NodeSet :
        /\ Rendered(n)
        /\ Cardinality(FirstSeenParents(n)) = 3
        /\ Len(FramesOf(n)) = 2
        /\ Len(FramesOf(n)[2].new_edges) = 2

\* C5: from one frame to the next, of the same node or of the next node, the
\* number of columns changes by at least -1 and at most +2.
C5_ColumnCountStep ==
    \A i \in 1..(Len(frames) - 1) :
        frames[i + 1].info.number_of_columns - frames[i].info.number_of_columns \in -1..2

\* A pass where the number of columns grows by 2 and shrinks by 1 between two
\* nodes, and grows between two frames of one node.
C5_Witness ==
    /\ \E i \in 1..(Len(frames) - 1) :
          /\ frames[i + 1].node # frames[i].node
          /\ frames[i + 1].info.number_of_columns = frames[i].info.number_of_columns + 2
    /\ \E i \in 1..(Len(frames) - 1) :
          /\ frames[i + 1].node # frames[i].node
          /\ frames[i + 1].info.number_of_columns = frames[i].info.number_of_columns - 1
    /\ \E i \in 1..(Len(frames) - 1) :
          /\ frames[i + 1].node = frames[i].node
          /\ frames[i + 1].info.number_of_columns = frames[i].info.number_of_columns + 1

\* The node row of frame i (the row that carries the symbol of the frame).
\* The node row of frame i: the first of its rows.
NodeRow(i) == out[frames[i].first]

HasRows(i) == frames[i].first <= Len(out)

\* The edges of frame i to parents that had a column already.
TrackedEdges(i) ==
    SubSeq(frames[i].info.edges, 1,
           Len(frames[i].info.edges) - Len(frames[i].new_edges))

\* The Python indices of the merge markers on a row.
Markers(g) == {p \in 0..(Len(g) - 1) : g[p + 1] = MERGE_NODE}

\* The edges of frame i, as they are rendered, that span two columns or more
\* and end inside the node row.
FarEdges(i) ==
    LET es == FixedEdges(frames[i].info.edges, frames[i].info.columns_size_diff)
    IN  {es[k] : k \in {k \in DOMAIN es :
                           /\ es[k][1] - es[k][2] \notin {-1, 0, 1}
                           /\ es[k][2] < frames[i].info.number_of_columns}}

\* C6 as it is stated: a frame with two or more parents in tracked columns
\* has exactly one merge marker on its node row, at the end of a tracked edge.
C6_OneMergeMarker ==
    \A i \in DOMAIN frames :
        (HasRows(i) /\ Len(TrackedEdges(i)) >= 2) =>
            /\ Cardinality(Markers(NodeRow(i).g)) = 1
            /\ \E e \in FarEdges(i) : Markers(NodeRow(i).g) = {2 * e[2]}

\* C6, amended: the node row of a frame has one merge marker for every column
\* that an edge of the frame reaches from two or more columns away (after the
\* crossing fix, inside the row), at that column, and horizontal bars or other
\* markers between the marker and the node; edges to an adjacent column or to
\* the node's own column leave no marker.
C6_MergeMarkers ==
    \A i \in DOMAIN frames :
        HasRows(i) =>
            /\ Markers(NodeRow(i).g) = {2 * e[2] : e \in FarEdges(i)}
            /\ \A e \in FarEdges(i) :
                  \A p \in (2 * Min(e[1], e[2]) + 1)..(2 * Max(e[1], e[2]) - 1) :
                      NodeRow(i).g[p + 1] \in {HORIZONTAL_EDGE, MERGE_NODE}

\* A frame with two tracked parents, one of them two columns or more away: its
\* node row has the merge marker of that edge and the bar up to it.
C6_Witness ==
    \E i \in DOMAIN frames :
        /\ HasRows(i)
        /\ Len(TrackedEdges(i)) >= 2
        /\ \E e \in FarEdges(i) :
              /\ In(TrackedEdges(i), e)
              /\ 2 * e[2] \in Markers(NodeRow(i).g)
              /\ \E p \in DOMAIN NodeRow(i).g : NodeRow(i).g[p] = HORIZONTAL_EDGE

\* C7: the first frame of a node has the root symbol if the node has no
\* parents and the node symbol otherwise, every further frame of the node has
\* the continuation marker, and the node row shows the symbol of its frame.
C7_NodeSymbol ==
    /\ \A n \in NodeSet :
          LET fs == FramesOf(n)
          IN  /\ fs # <<>> =>
                    fs[1].node_symbol = IF parents[n] = <<>> THEN ROOT_NODE ELSE NODE
              /\ \A i \in 2..Len(fs) : fs[i].node_symbol = RIGHT_EDGE
    /\ \A j \in DOMAIN out :
          out[j].kind = "node" =>
              /\ 2 * frames[out[j].frame].info.column_index < Len(out[j].g)
              /\ out[j].g[2 * frames[out[j].frame].info.column_index + 1]
                     = frames[out[j].frame].node_symbol

\* A finished pass with a root, a node with one parent, and a node with
\* several frames.
C7_Witness ==
    /\ pc = "done"
    /\ \E n \in NodeSet : parents[n] = <<>> /\ FramesOf(n)[1].node_symbol = ROOT_NODE
    /\ \E n \in NodeSet : Len(parents[n]) = 1 /\ FramesOf(n)[1].node_symbol = NODE
    /\ \E n \in NodeSet : Len(FramesOf(n)) > 1 /\ FramesOf(n)[2].node_symbol = RIGHT_EDGE

\* The number of label lines of node n (what node_text returns).
LabelLines(n) == IF workflow[n] THEN 2 ELSE 1

\* The indices of the rows that carry line l of the label of node n.
RowsWithLabel(n, l) == {j \in DOMAIN out : out[j].msg.node = n /\ out[j].msg.part = l}

\* C8: a rendered node has at least as many rows (separator rows not counted)
\* as label lines, and each of its label lines is on exactly one row.
C8_LabelLines ==
    \A n \in NodeSet : Rendered(n) =>
        /\ Cardinality({j \in DOMAIN out : out[j].node = n /\ out[j].kind # "blank"})
               >= LabelLines(n)
        /\ \A l \in 1..LabelLines(n) : Cardinality(RowsWithLabel(n, l)) = 1
        /\ \A j \in DOMAIN out : out[j].msg.node = n => out[j].msg.part <= LabelLines(n)

\* A rendered node with two label lines that is split into several frames.
C8_Witness ==
    \E n \in NodeSet :
        /\ Rendered(n)
        /\ LabelLines(n) = 2
        /\ Len(FramesOf(n)) > 1
        /\ Cardinality(RowsWithLabel(n, 2)) = 1

\* C9 as it is stated: only node rows carry label text.
C9_LabelOnNodeRowOnly ==
    \A j \in DOMAIN out : out[j].msg # NoMsg => out[j].kind = "node"

\* C9, amended: label text is only on rows of the frame that has the node or
\* root symbol; line l of the label is on the l-th row of that frame (line 1
\* on the node row, line 2 on the row after it, a shift or extension row); no
\* other row has label text.
C9_LabelRows ==
    \A j \in DOMAIN out :
        out[j].msg # NoMsg =>
            /\ frames[out[j].frame].node_symbol \in {NODE, ROOT_NODE}
            /\ out[j].msg.node = out[j].node
            /\ out[j].msg.part = j - frames[out[j].frame].first + 1
            /\ out[j].kind = "node" <=> out[j].msg.part = 1
            /\ out[j].kind \in {"node", "shift", "ext"}

\* A pass where a second label line is on a shift row, another one on an
\* extension row, and a continuation frame has rows.
C9_Witness ==
    /\ \E j \in DOMAIN out : out[j].msg.part = 2 /\ out[j].kind = "shift"
    /\ \E j \in DOMAIN out : out[j].msg.part = 2 /\ out[j].kind = "ext"
    /\ \E j \in DOMAIN out : frames[out[j].frame].node_symbol = RIGHT_EDGE

\* C10: the rows of a frame end with exactly one blank separator row if
\* self.edges is empty when they are yielded; if it is not, no row of the
\* frame is blank.
C10_Separator ==
    AfterFrame =>
        /\ FrameRows(Len(frames)) # {}
        /\ Cardinality({j \in FrameRows(Len(frames)) : out[j].kind = "blank"})
               = IF edges = {} THEN 1 ELSE 0
        /\ edges = {} => out[Len(out)].kind = "blank"
        /\ edges # {} =>
               \A j \in FrameRows(Len(frames)) : out[j].g # <<>> \/ out[j].msg # NoMsg

\* A pass with a separator row after a frame, and then a frame without one.
C10_Witness ==
    /\ AfterFrame
    /\ edges # {}
    /\ \E j \in DOMAIN out : out[j].kind = "blank"
    /\ out[Len(out)].kind # "blank"

\* C11: a node that lists itself as a parent ends the pass with the assertion
\* 'Self reference is not allowed.' as soon as it is reached: no frame and no
\* row of the node is ever produced, and the step that raises leaves the rows
\* and the frames of the nodes before it as they are.
C11_SelfReferenceFails ==
    /\ [](\A n \in NodeSet :
             In(parents[n], n) =>
                 /\ FramesOf(n) = <<>>
                 /\ \A j \in DOMAIN out : out[j].node # n
                 /\ pos <= n
                 /\ pos = n => (pc = "failed" /\ error = "SelfReference"))
    /\ [][(error = "none" /\ error' # "none") => (out' = out /\ frames' = frames)]_vars

\* The pass has failed on a node that lists itself, after rows of the nodes
\* before it were yielded.
C11_Witness ==
    /\ pc = "failed"
    /\ error = "SelfReference"
    /\ In(parents[pos], pos)
    /\ pos > 1
    /\ out # <<>>
    /\ \A j \in DOMAIN out : out[j].node < pos

\* The edges of frame i, as they are rendered, that span two columns or more:
\* the ones _render_edges draws as a horizontal line with a merge marker.
MergeEdges(i) ==
    LET es == FixedEdges(frames[i].info.edges, frames[i].info.columns_size_diff)
    IN  {es[k] : k \in {k \in DOMAIN es : es[k][1] - es[k][2] \notin {-1, 0, 1}}}

\* C12: a merge edge that ends beyond the node row ends the pass: there is no
\* frame whose rows were yielded while one of its merge edges is missing from
\* the node row (no merge marker at the column the edge ends in).
C12_NoEdgeDropped ==
    \A i \in DOMAIN frames :
        HasRows(i) => \A e \in MergeEdges(i) : 2 * e[2] \in Markers(NodeRow(i).g)

ShiftRows(i) == {j \in FrameRows(i) : out[j].kind = "shift"}

HasDiagonal(g) == In(g, LEFT_EDGE) \/ In(g, RIGHT_EDGE)

\* The shift line of frame i has a diagonal: the columns right of the node
\* move by one, or an edge of the frame goes to an adjacent column.
Slanted(i) ==
    LET f == frames[i].info
        es == FixedEdges(f.edges, f.columns_size_diff)
    IN  \/ f.columns_size_diff # 0 /\ f.number_of_columns - f.column_index - 1 > 0
        \/ \E k \in DOMAIN es : es[k][1] - es[k][2] \in {-1, 1}

\* C13: in short mode a frame has its shift row exactly when the shift line
\* has a left or right diagonal, and the row shows one; in full mode every
\* frame has its shift row.  No frame has two.
C13_ShiftRow ==
    \A i \in DOMAIN frames :
        HasRows(i) =>
            /\ Cardinality(ShiftRows(i)) <= 1
            /\ short => /\ ShiftRows(i) # {} <=> Slanted(i)
                        /\ \A j \in ShiftRows(i) : HasDiagonal(out[j].g)
            /\ ~short => ShiftRows(i) # {}

\* A short pass with a frame whose shift row was dropped and a frame whose
\* shift row was kept.
C13_Witness ==
    /\ short
    /\ \E i \in DOMAIN frames : HasRows(i) /\ ShiftRows(i) = {}
    /\ \E i \in DOMAIN frames : HasRows(i) /\ ShiftRows(i) # {}

\* C14: the frames come node by node in the order of rendering, no frame of a
\* node comes after a frame of one of its parents, a node has one last frame
\* at most and every node has exactly one when the pass is done; and every
\* pass that is consumed to its end is done at some point.
C14_EveryNodeOnce ==
    /\ [](/\ \A i, j \in DOMAIN frames : i < j => frames[i].node <= frames[j].node
          /\ \A i, j \in DOMAIN frames :
                 In(parents[frames[j].node], frames[i].node) => j < i
          /\ \A n \in NodeSet :
                 /\ Cardinality({i \in DOMAIN frames :
                                    frames[i].node = n /\ frames[i].final}) <= 1
                 /\ pc = "done" =>
                        \E i \in DOMAIN frames : frames[i].node = n /\ frames[i].final)
    /\ <>(pc = "done")

\* A finished pass over a graph in which a node has a parent that is not the
\* node rendered right after it.
C14_Witness ==
    /\ pc = "done"
    /\ \A n \in NodeSet : \E j \in DOMAIN out : out[j].node = n
    /\ \E n \in NodeSet : \E k \in DOMAIN parents[n] : parents[n][k] > n + 1

\* The graph is a chain: every node but the last has the next node as its
\* only parent.
IsChain ==
    \A n \in NodeSet : parents[n] = IF n < NumNodes THEN <<n + 1>> ELSE <<>>

\* C15: for a chain with one-line labels in short mode, self.columns never
\* has more than one entry; every row of a node is a node row that is just
\* the symbol, in column 0, with the label: the node symbol, and the root
\* symbol for the last node; a finished pass has yielded one such row per
\* node, in order, and one blank row, which is the last row.
C15_Chain ==
    (IsChain /\ short /\ \A n \in NodeSet : ~workflow[n]) =>
        /\ Len(columns) <= 1
        /\ \A j \in DOMAIN out :
               \/ /\ out[j].kind = "node"
                  /\ out[j].node = j
                  /\ out[j].g = <<IF j = NumNodes THEN ROOT_NODE ELSE NODE, SPACE>>
                  /\ out[j].msg = [node |-> j, part |-> 1, sub |-> <<>>]
               \/ /\ out[j].kind = "blank"
                  /\ j = NumNodes + 1
        /\ pc = "done" => Len(out) = NumNodes + 1

\* A finished short pass over a chain with one-line labels.
C15_Witness ==
    /\ IsChain
    /\ short
    /\ \A n \in NodeSet : ~workflow[n]
    /\ pc = "done"
    /\ Len(out) > 2

\* Frame i is the first frame of a node with two parents, one that has a
\* column already and one that is new.
MergeOfOldAndNew(i) ==
    /\ frames[i].node_symbol = NODE
    /\ Len(parents[frames[i].node]) = 2
    /\ Len(TrackedEdges(i)) = 1
    /\ Len(frames[i].new_columns) = 1
    /\ HasRows(i)

ShiftRow(i) == out[CHOOSE j \in ShiftRows(i) : TRUE]

\* The character at Python index p of a row (a space beyond its end).
CharAt(g, p) == IF p < Len(g) THEN g[p + 1] ELSE SPACE

\* C16 as it is stated: when the tracked parent is in column 0, the node has
\* one frame with the edges (0, 0) and (0, 1) that opens one column, the node
\* symbol is in column 0 and the shift row has a right diagonal that opens
\* column 1.
C16_OpensColumn ==
    \A i \in DOMAIN frames :
        (MergeOfOldAndNew(i) /\ TrackedEdges(i)[1][2] = 0) =>
            /\ frames[i].final
            /\ frames[i].info.edges = <<<<0, 0>>, <<0, 1>>>>
            /\ frames[i].info.columns_size_diff = 1
            /\ CharAt(NodeRow(i).g, 0) = NODE
            /\ ShiftRows(i) # {}
            /\ CharAt(ShiftRow(i).g, 1) = RIGHT_EDGE

\* C16, amended: a node in column c with a parent tracked in column k and one
\* new parent has one frame, with the edges (c, k) and (c, c) in this order:
\* the new parent takes the column of the node and no column is opened
\* (k # c, columns_size_diff = 0).  The node row has the node symbol in
\* column c; the edge to the tracked parent is a left diagonal on the shift
\* row for k = c - 1, a right diagonal for k = c + 1, and a merge marker in
\* column k of the node row otherwise.
C16_TakesColumn ==
    \A i \in DOMAIN frames :
        MergeOfOldAndNew(i) =>
            LET c == frames[i].info.column_index
                k == TrackedEdges(i)[1][2]
            IN  /\ frames[i].final
                /\ Len(FramesOf(frames[i].node)) = 1
                /\ frames[i].info.edges = <<<<c, k>>, <<c, c>>>>
                /\ k # c
                /\ frames[i].info.columns_size_diff = 0
                /\ CharAt(NodeRow(i).g, 2 * c) = NODE
                /\ k = c - 1 => /\ ShiftRows(i) # {}
                                /\ CharAt(ShiftRow(i).g, 2 * k + 1) = LEFT_EDGE
                /\ k = c + 1 => /\ ShiftRows(i) # {}
                                /\ CharAt(ShiftRow(i).g, 2 * c + 1) = RIGHT_EDGE
                /\ k \notin {c - 1, c + 1} => CharAt(NodeRow(i).g, 2 * k) = MERGE_NODE

\* A node in column 1 with a parent tracked in column 0 and one new parent.
C16_Witness ==
    \E i \in DOMAIN frames :
        /\ MergeOfOldAndNew(i)
        /\ TrackedEdges(i)[1][2] = 0
        /\ frames[i].info.column_index = 1

\* The parents of n that a node rendered before n has as a parent: the ones
\* that occupy a column when n is rendered.
TrackedParents(n) == {parents[n][i] : i \in DOMAIN parents[n]} \ FirstSeenParents(n)

\* C17: a frame that is not the last of its node carries the two edges
\* (column_index, column_index) and (column_index, column_index + 1) and no
\* other, and the last frame of a node carries one edge per tracked parent
\* besides the edges of its new columns.
C17_TrackedEdgesOnLastFrame ==
    \A i \in DOMAIN frames :
        IF frames[i].final
        THEN Len(TrackedEdges(i)) = Cardinality(TrackedParents(frames[i].node))
        ELSE frames[i].info.edges =
                 <<<<frames[i].info.column_index, frames[i].info.column_index>>,
                   <<frames[i].info.column_index, frames[i].info.column_index + 1>>>>

\* C18: the step of iter_edges that takes up a node appends the node to
\* self.columns when it is not there, and then puts the node's parents that
\* are not there, in their order, in the place of the node: the entries left
\* and right of the node stay as they are.  No other step changes
\* self.columns.
C18_ColumnsSplice ==
    [][IF pc = "next" /\ pc' = "frames"
       THEN LET node == pos'
                old == IF In(columns, node) THEN columns ELSE columns \o <<node>>
                i == CHOOSE k \in DOMAIN old : old[k] = node
                L == SelectSeq(parents[node], LAMBDA p : ~In(old, p))
            IN  /\ Len(columns') = Len(old) - 1 + Len(L)
                /\ \A k \in 1..(i - 1) : columns'[k] = old[k]
                /\ \A k \in 1..Len(L) : columns'[i - 1 + k] = L[k]
                /\ \A k \in (i + 1)..Len(old) : columns'[k - 1 + Len(L)] = old[k]
       ELSE columns' = columns]_vars

\* iter_edges has just put two or more new parents in the place of a node
\* that was not in the first column.
C18_Witness ==
    /\ pc = "frames"
    /\ FramesOf(pos) = <<>>
    /\ loc.column_index >= 1
    /\ Len(loc.new_columns) >= 2
    /\ SubSeq(columns, loc.column_index + 1, loc.column_index + Len(loc.new_columns))
           = loc.new_columns

\* C19: in a frame with columns_size_diff = -1 no edge, as it is rendered,
\* ends in the column right of its start, and the shift row has no right
\* diagonal: an edge that ends right of the node has its merge marker in the
\* column where it ends on the node row, and horizontal bars or other markers
\* from the node to it.
C19_NoRightDiagonal ==
    \A i \in DOMAIN frames :
        (HasRows(i) /\ frames[i].info.columns_size_diff = -1) =>
            LET es == FixedEdges(frames[i].info.edges, -1)
            IN  /\ \A k \in DOMAIN es : es[k][2] # es[k][1] + 1
                /\ \A j \in ShiftRows(i) : ~In(out[j].g, RIGHT_EDGE)
                /\ \A k \in DOMAIN es :
                       es[k][2] > es[k][1] =>
                           /\ CharAt(NodeRow(i).g, 2 * es[k][2]) = MERGE_NODE
                           /\ \A p \in (2 * es[k][1] + 1)..(2 * es[k][2] - 1) :
                                  CharAt(NodeRow(i).g, p) \in {HORIZONTAL_EDGE, MERGE_NODE}

\* A frame that closes a column and has an edge to a parent in the column that
\* is right of the node on the next row.
C19_Witness ==
    \E i \in DOMAIN frames :
        /\ HasRows(i)
        /\ frames[i].info.columns_size_diff = -1
        /\ \E k \in DOMAIN frames[i].info.edges :
               frames[i].info.edges[k][2] = frames[i].info.edges[k][1] + 1
        /\ ShiftRows(i) # {}

\* The indentation width of frame i.
IndentationWidth(i) ==
    2 * IndentationLevel(frames[i].info.number_of_columns,
                         frames[i].info.columns_size_diff)

\* C20: the graph part of a row is never longer than the indentation width of
\* its frame, so that every label line of a node starts right after that
\* width and one space.
C20_LabelsAligned ==
    \A j \in DOMAIN out :
        /\ Len(out[j].g) <= IndentationWidth(out[j].frame)
        /\ out[j].msg # NoMsg => Len(out[j].g) = IndentationWidth(out[j].frame)

\* A node with two label lines in a frame of two columns or more: the second
\* line is on a row whose graph part reaches the last column.
C20_Witness ==
    \E j \in DOMAIN out :
        /\ out[j].msg.part = 2
        /\ IndentationWidth(out[j].frame) >= 4
        /\ \E p \in {IndentationWidth(out[j].frame) - 2, IndentationWidth(out[j].frame) - 1} :
               CharAt(out[j].g, p) # SPACE
        /\ \E k \in DOMAIN out :
               /\ out[k].frame = out[j].frame
               /\ out[k].msg.part = 1
               /\ Len(out[k].g) = Len(out[j].g)

\* The identifiers that occupy a column.
ColumnSet == {columns[i] : i \in DOMAIN columns}

\* The generator is between two nodes: the last frame of a node has been
\* rendered and iter_edges has not been called for the next one.
BetweenNodes == pc \in {"next", "done"} /\ pos > 0 /\ error = "none"

\* C21: between two nodes self.columns holds no identifier twice, every
\* identifier in it is a node that is not rendered yet and is a parent of a
\* rendered node, and the keys of self.edges are the identifiers in
\* self.columns; a rendered node is never in self.columns again.
C21_ColumnsBetweenNodes ==
    /\ BetweenNodes =>
           /\ \A i, j \in DOMAIN columns : columns[i] = columns[j] => i = j
           /\ \A i \in DOMAIN columns :
                  \E m \in NodeSet : Rendered(m) /\ In(parents[m], columns[i])
           /\ edges = ColumnSet
    /\ \A i \in DOMAIN columns : ~Rendered(columns[i])

\* Between two nodes with two columns occupied, after a node that had a
\* column (as a parent of the first node) and parents of its own was rendered.
C21_Witness ==
    /\ BetweenNodes
    /\ Len(columns) >= 2
    /\ \E n \in NodeSet :
           Rendered(n) /\ In(parents[1], n) /\ parents[n] # <<>>

\* The rows of frame i that are empty: no graph character and no label.
BlankRows(i) == {j \in FrameRows(i) : out[j].g = <<>> /\ out[j].msg = NoMsg}

\* The last row of the output is the separator row.
EndsWithSeparator == out # <<>> /\ out[Len(out)].kind = "blank"

\* Frame i has an empty row only if it is the last frame of a node that has
\* no parents, and a separator row only as the last of its rows, after
\* another row.
SeparatorInPlace(i) ==
    /\ BlankRows(i) # {} => frames[i].final /\ parents[frames[i].node] = <<>>
    /\ \A j \in FrameRows(i) :
           out[j].kind = "blank" =>
               /\ j \in BlankRows(i)
               /\ j > frames[i].first
               /\ \A k \in FrameRows(i) : k <= j

\* C22: when the pass over the graph is complete self.columns and self.edges
\* are empty and the last row is the blank separator row; a blank separator
\* row is only ever yielded as the last row of the last frame of a node that
\* has no parents, and no other frame yields an empty row.  (Every frame is
\* the last one of frames in the state it is yielded in.)
C22_PassEnd ==
    /\ pc = "done" => columns = <<>> /\ edges = {} /\ EndsWithSeparator
    /\ AfterFrame => SeparatorInPlace(Len(frames))

\* A complete pass over a graph with an edge and with two lineages: a
\* separator row was yielded before the one that ends the output.
C22_Witness ==
    /\ pc = "done"
    /\ \E n \in NodeSet : parents[n] # <<>>
    /\ \E j \in 1..(Len(out) - 1) : out[j].kind = "blank"

\* An edge rendered as a horizontal merge line.
IsMergeEdge(e) == e[1] > e[2] + 1 \/ e[2] > e[1] + 1

\* C23: _render_edges never raises IndexError: in every pass, for every frame
\* iter_edges yields, each write to current_line and shift_line and each read
\* of edge_characters is inside the list, whatever self.last_index and
\* self.last_columns_size_diff the frame before it left; the rows of the
\* frame are yielded.
C23_NoIndexError ==
    /\ error # "IndexError"
    /\ AfterFrame => HasRows(Len(frames))

\* A pass without an error in which a frame with a merge line was rendered
\* with the tail-slope fix (its columns_size_diff is that of the frame before
\* it, and not 0), and frames with an edge to the column of the node and to
\* the column right of it.
C23_Witness ==
    /\ error = "none"
    /\ \E i \in 2..Len(frames) :
           /\ HasRows(i)
           /\ frames[i].info.columns_size_diff = frames[i - 1].info.columns_size_diff
           /\ frames[i].info.columns_size_diff # 0
           /\ \E k \in DOMAIN frames[i].info.edges : IsMergeEdge(frames[i].info.edges[k])
    /\ \E i \in DOMAIN frames : \E k \in DOMAIN frames[i].info.edges :
           frames[i].info.edges[k][1] = frames[i].info.edges[k][2]
    /\ \E i \in DOMAIN frames : \E k \in DOMAIN frames[i].info.edges :
           frames[i].info.edges[k][1] + 1 = frames[i].info.edges[k][2]

\* The frame iter_edges yields next when it is resumed.
PendingFrame ==
    IF MoreColumns(loc.new_columns)
    THEN Frame(loc, FALSE,
               <<<<loc.column_index, loc.column_index>>,
                 <<loc.column_index, loc.column_index + 1>>>>, 1)
    ELSE Frame(loc, TRUE, NewEdges(loc.new_columns, loc.column_index),
               ColumnsSizeDiff(loc.next_len, loc.number_of_columns))

\* edge_characters of a frame.
FrameCharacters(frame) ==
    EdgeCharacters(columns, frame.info.number_of_columns, frame.info.columns_size_diff)

\* current_line of a frame before _render_edges, for a value of
\* fix_tail_slope, self.last_index and self.last_columns_size_diff.
FrameCurrentLine(ec, frame, fix_tail, lidx, ldiff) ==
    CurrentLine(ec, frame.node_symbol, frame.info.column_index,
                frame.info.number_of_columns, frame.info.columns_size_diff,
                fix_tail, lidx, ldiff)

\* current_line and shift_line of a frame after _render_edges, with ok FALSE
\* if an index was outside its list.
FrameRendered(ec, frame, fix_tail, lidx, ldiff) ==
    RenderEdges(ec, FixedEdges(frame.info.edges, frame.info.columns_size_diff),
                [cur |-> FrameCurrentLine(ec, frame, fix_tail, lidx, ldiff),
                 sh |-> ShiftLine(ec, frame.info.column_index,
                                  frame.info.number_of_columns,
                                  frame.info.columns_size_diff),
                 ok |-> TRUE])

\* Values of self.last_index for a frame, one for each way the tail-slope fix
\* can go when self.last_columns_size_diff is the columns_size_diff of the
\* frame.  With columns_size_diff = 0 there is no fix.  With -1 the tail
\* leans left from max(column_index + 1, self.last_index): 0 stands for the
\* values up to column_index + 1, and the others are every column right of
\* that and one past the last column.  With 1 the tail leans right and
\* self.last_index is not read: one value stands for all.
LastIndexValues(frame) ==
    IF frame.info.columns_size_diff = 0 THEN {}
    ELSE IF frame.info.columns_size_diff = -1
    THEN {0} \cup (frame.info.column_index + 2)..(frame.info.number_of_columns + 1)
    ELSE {last_index}

\* The line has the width of the frame and its symbol at its column.
SymbolInPlace(frame, line) ==
    /\ Len(line) = 2 * frame.info.number_of_columns
    /\ line[2 * frame.info.column_index + 1] = frame.node_symbol

\* current_line of the frame after _render_edges has the width and the symbol
\* of the frame: without the tail-slope fix (where _line_tail reads neither
\* self.last_index nor self.last_columns_size_diff), and with it when
\* self.last_columns_size_diff is the columns_size_diff of the frame.
NodeRowWidth(ec, frame) ==
    /\ SymbolInPlace(frame, FrameRendered(ec, frame, FALSE, last_index,
                                          last_columns_size_diff).cur)
    /\ \A lidx \in LastIndexValues(frame) :
           SymbolInPlace(frame, FrameRendered(ec, frame, TRUE, lidx,
                                              frame.info.columns_size_diff).cur)

\* C24: for every frame current_line has 2 * number_of_columns characters
\* before it is stripped, with and without the tail-slope fix and for every
\* self.last_index, and after _render_edges it still has the node symbol of
\* the frame at 2 * column_index.
C24_NodeRowWidth ==
    pc = "frames" => NodeRowWidth(FrameCharacters(PendingFrame), PendingFrame)

\* The merge line of the frame starts right next to its symbol.
BarNextToSymbol(frame, line) ==
    CharAt(line, 2 * frame.info.column_index + 1) = HORIZONTAL_EDGE

\* The tail-slope fix changes current_line of the frame.
TailFixed(ec, frame) ==
    FrameCurrentLine(ec, frame, TRUE, 0, frame.info.columns_size_diff)
        # FrameCurrentLine(ec, frame, FALSE, 0, frame.info.columns_size_diff)

\* A frame about to be rendered with a merge line that starts right next to
\* the node symbol, and with a tail that the tail-slope fix changes.
C24_Witness ==
    /\ pc = "frames"
    /\ error = "none"
    /\ TailFixed(FrameCharacters(PendingFrame), PendingFrame)
    /\ BarNextToSymbol(PendingFrame,
                       FrameRendered(FrameCharacters(PendingFrame), PendingFrame, TRUE,
                                     last_index, last_columns_size_diff).cur)

====
